---- MODULE Spec2Model ----
(***************************************************************************)
(* A model of the vndr command line tool (packages/vndr/cli.mjs).          *)
(*                                                                         *)
(* Strings are sequences of one-character strings, so that startsWith,     *)
(* includes, the two regular expressions, basename and join are computed   *)
(* character by character as the program computes them.                    *)
(*                                                                         *)
(* The environment (network, git, npm, the filesystem's copy and read      *)
(* operations) answers nondeterministically: every external command may    *)
(* succeed or fail.  mkdir with {recursive: true} and rm with              *)
(* {recursive: true, force: true} succeed.                                 *)
(***************************************************************************)
EXTENDS Integers, Sequences, FiniteSets, TLC

VARIABLES
    args,       \* positionals: the inputs given on the command line
    dirOpt,     \* values.dir: the --dir option, <<>> when not given
    targetDir,  \* main's targetDir
    pc,         \* the position of the program
    idx,        \* index in args of the input the for loop is at
    exitCode,   \* the process's exit code, -1 while it runs
    fsys,       \* the filesystem outside the scratch root: path -> entry
    tmpfs,      \* the paths that exist under the scratch root
    tempDir,    \* tempDir of the running handler, <<>> when none
    dlUrl,      \* downloadFile's url
    dlPath,     \* downloadFile's targetPath
    resp,       \* the status of the HTTP response received, 0 when none
    err,        \* the message of the error being thrown, <<>> when none
    files,      \* downloadNpmPackage: the entries of sourceDir not yet copied
    route,      \* per input: the handler downloadPackage called
    status,     \* per input: "pending", "ok" or "failed"
    written,    \* per input: the paths it wrote outside the scratch root
    ops,        \* the external operations attempted: <<input index, operation>>
    fetched     \* per input: the URL handed to fetch, <<>> when none

vars == <<args, dirOpt, targetDir, pc, idx, exitCode, fsys, tmpfs, tempDir,
          dlUrl, dlPath, resp, err, files, route, status, written, ops, fetched>>

\* ---------------------------------------------------------------- bounds

\* The most inputs on one command line.
MaxInputs == 2

\* Date.now() takes the values 0..MaxStamp.
MaxStamp == 0

\* ------------------------------------------------------ string literals

s_slash == <<"/">>
s_http == <<"h", "t", "t", "p", ":", "/", "/">>
s_https == <<"h", "t", "t", "p", "s", ":", "/", "/">>
s_github_com == <<"g", "i", "t", "h", "u", "b", ".", "c", "o", "m">>
s_blob == <<"b", "l", "o", "b">>
s_tree == <<"t", "r", "e", "e">>
s_raw_prefix == <<"h", "t", "t", "p", "s", ":", "/", "/", "r", "a", "w", ".", "g", "i", "t", "h", "u", "b", "u", "s", "e", "r", "c", "o", "n", "t", "e", "n", "t", ".", "c", "o", "m", "/">>
s_dot_git == <<".", "g", "i", "t">>
s_node_modules == <<"n", "o", "d", "e", "_", "m", "o", "d", "u", "l", "e", "s">>
s_vndr_dash == <<"v", "n", "d", "r", "-">>
s_tmp == <<"/", "t", "m", "p">>
DEFAULT_DIR == <<".", "/", "v", "n", "d", "r">>
s_failed_to_download == <<"F", "a", "i", "l", "e", "d", " ", "t", "o", " ", "d", "o", "w", "n", "l", "o", "a", "d", " ">>
s_colon_space == <<":", " ">>
s_dash == <<" ", "-", " ">>
s_not_valid == <<"N", "o", "t", " ", "a", " ", "v", "a", "l", "i", "d", " ", "G", "i", "t", "H", "u", "b", " ", "U", "R", "L">>
s_path_q == <<"P", "a", "t", "h", " ", "'">>
s_not_found == <<"'", " ", "n", "o", "t", " ", "f", "o", "u", "n", "d", " ", "i", "n", " ", "r", "e", "p", "o", "s", "i", "t", "o", "r", "y">>
s_git_failed == <<"C", "o", "m", "m", "a", "n", "d", " ", "f", "a", "i", "l", "e", "d", ":", " ", "g", "i", "t">>
s_npm_failed == <<"C", "o", "m", "m", "a", "n", "d", " ", "f", "a", "i", "l", "e", "d", ":", " ", "n", "p", "m">>
s_fetch_failed == <<"f", "e", "t", "c", "h", " ", "f", "a", "i", "l", "e", "d">>
s_eisdir == <<"E", "I", "S", "D", "I", "R">>
s_enoent == <<"E", "N", "O", "E", "N", "T">>
s_eio == <<"E", "I", "O">>
Digits == <<"0", "1", "2", "3", "4", "5", "6", "7", "8", "9">>

\* ------------------------------------------------- JavaScript strings

\* w occurs in s at position i
OccursAt(w, s, i) ==
    /\ i >= 1
    /\ i + Len(w) - 1 <= Len(s)
    /\ \A k \in 1..Len(w) : s[i + k - 1] = w[k]

\* String.prototype.startsWith
startsWith(s, w) == OccursAt(w, s, 1)

\* String.prototype.includes
includes(s, w) == \E i \in 1..(Len(s) + 1) : OccursAt(w, s, i)

\* `${n}` for a number n >= 0
RECURSIVE ToDigits(_)
ToDigits(n) ==
    IF n < 10 THEN <<Digits[n + 1]>>
    ELSE ToDigits(n \div 10) \o <<Digits[(n % 10) + 1]>>

\* The index after the longest run of characters other than "/" from i: [^/]*
RECURSIVE RunEnd(_, _)
RunEnd(s, i) ==
    IF i <= Len(s) /\ s[i] # "/" THEN RunEnd(s, i + 1) ELSE i

\* s from position i to its end
From(s, i) == SubSeq(s, i, Len(s))

\* s.split("/").pop(): what follows the last "/"
RECURSIVE LastSlash(_, _)
LastSlash(s, i) ==
    IF i = 0 \/ s[i] = "/" THEN i ELSE LastSlash(s, i - 1)

splitPop(s) == From(s, LastSlash(s, Len(s)) + 1)

\* ------------------------------------------------------- node:path

\* path.basename (posix): the last run of characters other than "/",
\* trailing "/" dropped; "" when there is none.
RECURSIVE LastNonSlash(_, _)
LastNonSlash(s, i) ==
    IF i = 0 \/ s[i] # "/" THEN i ELSE LastNonSlash(s, i - 1)

basename(s) ==
    LET end == LastNonSlash(s, Len(s))
    IN  IF end = 0 THEN <<>>
        ELSE SubSeq(s, LastSlash(s, end) + 1, end)

\* The segments of s between its "/" characters (empty ones included).
RECURSIVE Split(_, _)
Split(s, i) ==
    LET e == RunEnd(s, i)
    IN  IF e > Len(s) THEN <<SubSeq(s, i, Len(s))>>
        ELSE <<SubSeq(s, i, e - 1)>> \o Split(s, e + 1)

\* normalizeString: empty and "." segments dropped, ".." resolved; above the
\* start a ".." is kept when allowAboveRoot.
RECURSIVE NormSegs(_, _, _)
NormSegs(segs, acc, allowAboveRoot) ==
    IF segs = <<>> THEN acc
    ELSE LET h == Head(segs)
             t == Tail(segs)
         IN  IF h = <<>> \/ h = <<".">> THEN NormSegs(t, acc, allowAboveRoot)
             ELSE IF h = <<".", ".">>
                  THEN IF acc # <<>> /\ acc[Len(acc)] # <<".", ".">>
                       THEN NormSegs(t, SubSeq(acc, 1, Len(acc) - 1), allowAboveRoot)
                       ELSE IF allowAboveRoot
                            THEN NormSegs(t, Append(acc, h), allowAboveRoot)
                            ELSE NormSegs(t, acc, allowAboveRoot)
                  ELSE NormSegs(t, Append(acc, h), allowAboveRoot)

RECURSIVE Glue(_)
Glue(segs) ==
    IF segs = <<>> THEN <<>>
    ELSE IF Len(segs) = 1 THEN segs[1]
    ELSE segs[1] \o s_slash \o Glue(Tail(segs))

\* path.normalize (posix)
normalize(p) ==
    IF p = <<>> THEN <<".">>
    ELSE LET isAbsolute == p[1] = "/"
             trailing == p[Len(p)] = "/"
             body == Glue(NormSegs(Split(p, 1), <<>>, ~isAbsolute))
         IN  IF body = <<>>
             THEN IF isAbsolute THEN s_slash
                  ELSE IF trailing THEN <<".", "/">> ELSE <<".">>
             ELSE (IF isAbsolute THEN s_slash ELSE <<>>) \o body
                  \o (IF trailing THEN s_slash ELSE <<>>)

\* path.join (posix) of two and of three arguments: the non-empty arguments
\* joined with "/", then normalized.
join(a, b) ==
    IF a = <<>> THEN normalize(b)
    ELSE IF b = <<>> THEN normalize(a)
    ELSE normalize(a \o s_slash \o b)

join3(a, b, c) ==
    IF c = <<>> THEN join(a, b)
    ELSE IF a = <<>> /\ b = <<>> THEN normalize(c)
    ELSE join(join(a, b) \o s_slash, c)

\* path.dirname (posix), of a normalized relative or absolute path
dirname(p) ==
    LET end == LastNonSlash(p, Len(p))
        cut == LastSlash(p, end)
    IN  IF cut = 0 THEN <<".">>
        ELSE IF LastNonSlash(p, cut) = 0 THEN s_slash
        ELSE SubSeq(p, 1, LastNonSlash(p, cut))

\* The filesystem's name of a path: a trailing "/" names the same entry.
FsKey(p) ==
    LET n == normalize(p)
        end == LastNonSlash(n, Len(n))
    IN  IF end = 0 THEN n ELSE SubSeq(n, 1, end)

\* p is q or lies under q
Under(p, q) ==
    \/ p = q
    \/ /\ Len(p) > Len(q)
       /\ SubSeq(p, 1, Len(q)) = q
       /\ p[Len(q) + 1] = "/"

\* ------------------------------------------------ the program's parsers

NoMatch == [ok |-> FALSE, repo |-> <<>>, type |-> <<>>, branch |-> <<>>, path |-> <<>>]

\* The regular expression of parseGitHubUrl tried at position i:
\*   github\.com\/([^/]+\/[^/]+)\/(blob|tree)\/([^/]+)\/?(.*)
\* Each [^/]+ is followed by a "/" in the pattern (or, the last, by what
\* always matches), so the greedy run is the only way to match.
GitHubMatchAt(url, i) ==
    LET o1 == i + Len(s_github_com) + 1      \* the start of the owner
        o2 == RunEnd(url, o1)                \* the "/" after the owner
        r1 == o2 + 1                         \* the start of the name
        r2 == RunEnd(url, r1)                \* the "/" after the name
        t1 == r2 + 1                         \* the start of blob|tree
        t2 == t1 + 4                         \* the "/" after it
        b1 == t2 + 1                         \* the start of the branch
        b2 == RunEnd(url, b1)                \* the end of the branch
        p1 == IF b2 <= Len(url) THEN b2 + 1 ELSE b2   \* \/? is greedy
    IN  IF /\ OccursAt(s_github_com \o s_slash, url, i)
           /\ o2 > o1 /\ o2 <= Len(url)
           /\ r2 > r1 /\ r2 <= Len(url)
           /\ (OccursAt(s_blob, url, t1) \/ OccursAt(s_tree, url, t1))
           /\ t2 <= Len(url) /\ url[t2] = "/"
           /\ b2 > b1
        THEN [ok |-> TRUE,
              repo |-> SubSeq(url, o1, r2 - 1),
              type |-> SubSeq(url, t1, t2 - 1),
              branch |-> SubSeq(url, b1, b2 - 1),
              path |-> From(url, p1)]
        ELSE NoMatch

\* String.prototype.match without the g flag: the leftmost match.
RECURSIVE GitHubMatchFrom(_, _)
GitHubMatchFrom(url, i) ==
    IF i > Len(url) THEN NoMatch
    ELSE IF GitHubMatchAt(url, i).ok THEN GitHubMatchAt(url, i)
    ELSE GitHubMatchFrom(url, i + 1)

\* parseGitHubUrl(url): the match, or null (ok = FALSE)
parseGitHubUrl(url) == GitHubMatchFrom(url, 1)

\* isGitHubRepo with the regular expression's anchors left out:
\* input.includes("/") && /[^/]+\/[^/]+/.test(input)
isGitHubRepo_Unanchored(input) ==
    \E i \in 2..(Len(input) - 1) :
        input[i] = "/" /\ input[i - 1] # "/" /\ input[i + 1] # "/"

\* isGitHubRepo(input): input.includes("/") && /^[^/]+\/[^/]+$/.test(input)
isGitHubRepo(input) ==
    LET e1 == RunEnd(input, 1)
        e2 == RunEnd(input, e1 + 1)
    IN  /\ includes(input, s_slash)
        /\ e1 > 1 /\ e1 <= Len(input)
        /\ e2 > e1 + 1 /\ e2 = Len(input) + 1

\* rawUrl with only the host replaced: /blob/ is kept
rawUrl_KeepsBlob(repo, branch, path) ==
    s_raw_prefix \o repo \o s_slash \o s_blob \o s_slash \o branch \o s_slash \o path

\* Template literals of the handlers
rawUrl(repo, branch, path) == s_raw_prefix \o repo \o s_slash \o branch \o s_slash \o path

\* basename(path || url): "" is falsy
blobFileName(path, url) == basename(IF path # <<>> THEN path ELSE url)

\* treeTargetPath without basename: join(targetDir, path || repo)
treeTargetPath_NoBasename(dir, path, repo) == join(dir, IF path # <<>> THEN path ELSE repo)

\* join(targetDir, basename(path || repo))
treeTargetPath(dir, path, repo) == join(dir, basename(IF path # <<>> THEN path ELSE repo))

\* path ? join(tempDir, path) : tempDir
treeSourcePath(tmp, path) == IF path # <<>> THEN join(tmp, path) ELSE tmp

\* join(tmpdir(), `vndr-${Date.now()}`)
scratchName(now) == join(s_tmp, s_vndr_dash \o ToDigits(now))

\* join(tempDir, "node_modules", packageName.split("/").pop())
npmSourceDir(tmp, packageName) == join3(tmp, s_node_modules, splitPop(packageName))

\* `Failed to download ${url}: ${error.message}` around
\* `${response.status} - ${await response.text()}`
downloadError(url, message) == s_failed_to_download \o url \o s_colon_space \o message

statusMessage(st, body) == ToDigits(st) \o s_dash \o body

\* response.ok
responseOk(st) == st >= 200 /\ st <= 299

\* ------------------------------------------------------------- inputs

n_o == <<"o">>
n_r == <<"r">>
n_b == <<"b">>
n_d == <<"d">>
n_f == <<"f">>
n_n == <<"n">>
n_x == <<"x">>
n_scope == <<"@", "s">>
n_host == <<"x", ".", "i", "o">>
n_out == <<"o", "u", "t">>

\* a/b/.. from the segments <<a, b, ..>>
PathOf(segs) == Glue(segs)

GitHubUrl(owner, name, type, branch, rest) ==
    s_https \o s_github_com \o s_slash \o owner \o s_slash \o name \o s_slash
        \o type \o s_slash \o branch \o rest

\* github.com/<owner>/<name>/blob/<b>/<p>, and the same without "/<p>"
BlobUrl(owner, name, b, p) == GitHubUrl(owner, name, s_blob, b, s_slash \o p)
BlobUrlNoPath(owner, name, b) == GitHubUrl(owner, name, s_blob, b, <<>>)
TreeUrl(owner, name, b, p) == GitHubUrl(owner, name, s_tree, b, s_slash \o p)
TreeUrlNoPath(owner, name, b) == GitHubUrl(owner, name, s_tree, b, <<>>)
GenericUrl(scheme, segs) == scheme \o n_host \o s_slash \o PathOf(segs)
Token(owner, name) == owner \o s_slash \o name

\* The subpaths with a final segment, as segments
SegLists == {<<n_d>>, <<n_d, n_f>>}

BlobUrls ==
    {BlobUrl(n_o, n_r, n_b, PathOf(<<n_d, n_f>>)), BlobUrl(n_o, n_r, n_b, s_slash),
     BlobUrlNoPath(n_o, n_r, n_b)}

TreeUrls ==
    {TreeUrl(n_o, n_r, n_b, PathOf(segs)) : segs \in SegLists}
        \cup {TreeUrl(n_o, n_r, n_b, s_slash), TreeUrlNoPath(n_o, n_r, n_b)}

\* A URL with github.com in it that is neither a blob nor a tree URL
OtherGitHubUrls == {s_https \o s_github_com \o s_slash \o Token(n_o, n_r)}

GenericUrls == {GenericUrl(s_https, <<n_d, n_f>>), GenericUrl(s_http, <<n_f>>)}

RepoTokens == {Token(n_o, n_r)}

ScopedNames == {Token(n_scope, n_n)}

PackageNames == {n_n}

\* Tokens with a "/" that are not of the owner/name shape
OtherTokens == {Token(n_o, n_r) \o s_slash \o n_x, s_slash \o n_r, n_o \o s_slash}

Inputs ==
    BlobUrls \cup TreeUrls \cup OtherGitHubUrls \cup GenericUrls \cup RepoTokens
        \cup ScopedNames \cup PackageNames \cup OtherTokens

\* The values of --dir: not given, or a directory
DirOptions == {<<>>, n_out}

\* What the environment answers
Statuses == {200, 404, 500}
Bodies == {<<>>, <<"n", "f">>}
FileLists == {<<>>, <<n_r>>, <<n_r, n_x>>}

\* ---------------------------------------------------------- filesystem

NoFiles == [p \in {} |-> [kind |-> "none", by |-> 0, src |-> <<>>]]

Put(fs, p, e) == [q \in DOMAIN fs \cup {p} |-> IF q = p THEN e ELSE fs[q]]

RemoveUnder(fs, p) == [q \in {k \in DOMAIN fs : ~Under(k, p)} |-> fs[q]]

Dir(i) == [kind |-> "dir", by |-> i, src |-> <<>>]

\* fs.mkdir(p, {recursive: true}): p is created unless it exists
Mkdir(fs, p, i) == IF FsKey(p) \in DOMAIN fs THEN fs ELSE Put(fs, FsKey(p), Dir(i))

IsDir(fs, p) == FsKey(p) \in DOMAIN fs /\ fs[FsKey(p)].kind \in {"dir", "tree"}

\* git clones into a path that does not exist or is an empty directory
\* (kind "dir": made by mkdir, nothing copied into it)
CanCloneInto(fs, p) ==
    \A k \in DOMAIN fs : Under(k, FsKey(p)) => (k = FsKey(p) /\ fs[k].kind = "dir")

\* --------------------------------------------------------- the program

ArgLists == UNION {[1..n -> Inputs] : n \in 0..MaxInputs}

Init ==
    /\ args \in ArgLists
    /\ dirOpt \in DirOptions
    /\ targetDir = <<>>
    /\ pc = "main"
    /\ idx = 0
    /\ exitCode = -1
    /\ fsys = NoFiles
    /\ tmpfs = {}
    /\ tempDir = <<>>
    /\ dlUrl = <<>>
    /\ dlPath = <<>>
    /\ resp = 0
    /\ err = <<>>
    /\ files = <<>>
    /\ route = [i \in 1..Len(args) |-> "none"]
    /\ status = [i \in 1..Len(args) |-> "pending"]
    /\ written = [i \in 1..Len(args) |-> {}]
    /\ ops = {}
    /\ fetched = [i \in 1..Len(args) |-> <<>>]

input == args[idx]

Attempt(op) == ops' = ops \cup {<<idx, op>>}

Wrote(p) == written' = [written EXCEPT ![idx] = @ \cup {FsKey(p)}]

\* The handler returns to main's for loop, which goes to the next input.
Return ==
    /\ status' = [status EXCEPT ![idx] = "ok"]
    /\ idx' = idx + 1
    /\ pc' = "loop"

\* An error leaves downloadPackage: main's catch is next.
Raise(message) ==
    /\ err' = message
    /\ status' = [status EXCEPT ![idx] = "failed"]
    /\ pc' = "catch"

\* main, up to the for loop: no positionals is a usage error.
Main ==
    /\ pc = "main"
    /\ IF Len(args) = 0
       THEN /\ exitCode' = 1
            /\ pc' = "exited"
            /\ UNCHANGED <<targetDir, idx>>
       ELSE /\ targetDir' = (IF dirOpt # <<>> THEN dirOpt ELSE DEFAULT_DIR)
            /\ idx' = 1
            /\ pc' = "loop"
            /\ UNCHANGED exitCode
    /\ UNCHANGED <<args, dirOpt, fsys, tmpfs, tempDir, dlUrl, dlPath, resp, err,
                   files, route, status, written, ops, fetched>>

\* The for loop is over: main returns and the process ends.
MainDone ==
    /\ pc = "loop"
    /\ idx > Len(args)
    /\ pc' = "exited"
    /\ exitCode' = 0
    /\ UNCHANGED <<args, dirOpt, targetDir, idx, fsys, tmpfs, tempDir, dlUrl, dlPath,
                   resp, err, files, route, status, written, ops, fetched>>

\* main with the try/catch inside the for loop: the error is logged and
\* the loop goes on with the next input
MainCatch_Continue ==
    /\ pc = "catch"
    /\ pc' = "loop"
    /\ idx' = idx + 1
    /\ err' = <<>>
    /\ UNCHANGED <<args, dirOpt, targetDir, exitCode, fsys, tmpfs, tempDir, dlUrl, dlPath,
                   resp, files, route, status, written, ops, fetched>>

\* main's catch: console.error, process.exit(1)
MainCatch ==
    /\ pc = "catch"
    /\ exitCode' = 1
    /\ pc' = "exited"
    /\ UNCHANGED <<args, dirOpt, targetDir, idx, fsys, tmpfs, tempDir, dlUrl, dlPath,
                   resp, err, files, route, status, written, ops, fetched>>

\* downloadPackage sending a github.com URL that parseGitHubUrl does not
\* match on to the direct file download
RouteOf_FallThrough(s) ==
    IF startsWith(s, s_http) \/ startsWith(s, s_https)
    THEN IF includes(s, s_github_com) /\ parseGitHubUrl(s).ok THEN "github" ELSE "file"
    ELSE IF isGitHubRepo(s) THEN "repo" ELSE "npm"

\* The handler downloadPackage calls for an input
RouteOf(s) ==
    IF startsWith(s, s_http) \/ startsWith(s, s_https)
    THEN IF includes(s, s_github_com) THEN "github" ELSE "file"
    ELSE IF isGitHubRepo(s) THEN "repo" ELSE "npm"

\* downloadPackage(input, targetDir), up to the first await of the handler;
\* for a GitHub URL this is downloadGitHubPath up to its first await.
DownloadPackage ==
    /\ pc = "loop"
    /\ idx <= Len(args)
    /\ route' = [route EXCEPT ![idx] = RouteOf(input)]
    /\ fsys' = Mkdir(fsys, targetDir, idx)
    /\ resp' = 0
    /\ LET parsed == parseGitHubUrl(input)
       IN  CASE RouteOf(input) = "github" /\ ~parsed.ok ->
                    /\ Raise(s_not_valid)
                    /\ UNCHANGED <<dlUrl, dlPath>>
             [] RouteOf(input) = "github" /\ parsed.ok /\ parsed.type = s_blob ->
                    /\ dlUrl' = rawUrl(parsed.repo, parsed.branch, parsed.path)
                    /\ dlPath' = join(targetDir, blobFileName(parsed.path, input))
                    /\ pc' = "fetch"
                    /\ UNCHANGED <<err, status>>
             [] RouteOf(input) = "github" /\ parsed.ok /\ parsed.type = s_tree ->
                    /\ pc' = "tree_mkdir"
                    /\ UNCHANGED <<dlUrl, dlPath, err, status>>
             [] RouteOf(input) = "file" ->
                    /\ dlUrl' = input
                    /\ dlPath' = join(targetDir, basename(input))
                    /\ pc' = "fetch"
                    /\ UNCHANGED <<err, status>>
             [] RouteOf(input) = "repo" ->
                    /\ pc' = "repo_clone"
                    /\ UNCHANGED <<dlUrl, dlPath, err, status>>
             [] RouteOf(input) = "npm" ->
                    /\ pc' = "npm_mkdir"
                    /\ UNCHANGED <<dlUrl, dlPath, err, status>>
    /\ UNCHANGED <<args, dirOpt, targetDir, idx, exitCode, tmpfs, tempDir, files,
                   written, ops, fetched>>

\* downloadFile: await fetch(url)
Fetch ==
    /\ pc = "fetch"
    /\ Attempt("fetch")
    /\ fetched' = [fetched EXCEPT ![idx] = dlUrl]
    /\ \/ /\ Raise(downloadError(dlUrl, s_fetch_failed))
          /\ UNCHANGED resp
       \/ /\ resp' \in Statuses
          /\ pc' = "response"
          /\ UNCHANGED <<err, status>>
    /\ UNCHANGED <<args, dirOpt, targetDir, idx, exitCode, fsys, tmpfs, tempDir, dlUrl,
                   dlPath, files, route, written>>

\* downloadFile writing the body before it looks at response.ok
Response_WriteFirst ==
    /\ pc = "response"
    /\ fsys' = Put(Mkdir(fsys, dirname(dlPath), idx), FsKey(dlPath),
                   [kind |-> "file", by |-> idx, src |-> dlUrl])
    /\ Wrote(dlPath)
    /\ Attempt("write")
    /\ IF ~responseOk(resp)
       THEN /\ \E body \in Bodies : Raise(downloadError(dlUrl, statusMessage(resp, body)))
            /\ UNCHANGED idx
       ELSE /\ Return
            /\ UNCHANGED err
    /\ UNCHANGED <<args, dirOpt, targetDir, exitCode, tmpfs, tempDir, dlUrl, dlPath,
                   resp, files, route, fetched>>

\* downloadFile after the response: the status check, mkdir, writeFile.
\* A failed write leaves the file as it was or partly written.
Response ==
    /\ pc = "response"
    /\ IF ~responseOk(resp)
       THEN /\ \E body \in Bodies : Raise(downloadError(dlUrl, statusMessage(resp, body)))
            /\ UNCHANGED <<fsys, written, idx, ops>>
       ELSE /\ Attempt("write")
            /\ IF IsDir(fsys, dlPath)
               THEN /\ Raise(downloadError(dlUrl, s_eisdir))
                    /\ UNCHANGED <<fsys, written, idx>>
               ELSE \/ /\ fsys' = Put(Mkdir(fsys, dirname(dlPath), idx), FsKey(dlPath),
                                      [kind |-> "file", by |-> idx, src |-> dlUrl])
                       /\ Wrote(dlPath)
                       /\ Return
                       /\ UNCHANGED err
                    \/ /\ Raise(downloadError(dlUrl, s_eio))
                       /\ \/ UNCHANGED <<fsys, written>>
                          \/ /\ fsys' = Put(fsys, FsKey(dlPath),
                                            [kind |-> "partial", by |-> idx, src |-> dlUrl])
                             /\ Wrote(dlPath)
                       /\ UNCHANGED idx
    /\ UNCHANGED <<args, dirOpt, targetDir, exitCode, tmpfs, tempDir, dlUrl, dlPath,
                   resp, files, route, fetched>>

\* The scratch directory is removed: fs.rm(tempDir, {recursive: true, force: true})
RemoveScratch(tmp, dir) == {q \in tmp : ~Under(q, dir)}

\* downloadGitHubPath, tree: tempDir is named and created
TreeMkdir ==
    /\ pc = "tree_mkdir"
    /\ \E now \in 0..MaxStamp :
          /\ tempDir' = scratchName(now)
          /\ tmpfs' = tmpfs \cup {scratchName(now)}
    /\ Attempt("mkdtemp")
    /\ pc' = "tree_clone"
    /\ UNCHANGED <<args, dirOpt, targetDir, idx, exitCode, fsys, dlUrl, dlPath, resp,
                   err, files, route, status, written, fetched>>

\* git clone --depth 1 --branch <branch> <url> <tempDir>
TreeClone ==
    /\ pc = "tree_clone"
    /\ Attempt("clone")
    /\ \/ /\ tmpfs' = tmpfs \cup {join(tempDir, s_dot_git)}
          /\ pc' = "tree_access"
          /\ UNCHANGED err
       \/ /\ err' = s_git_failed
          /\ pc' = "tree_finally"
          /\ UNCHANGED tmpfs
    /\ UNCHANGED <<args, dirOpt, targetDir, idx, exitCode, fsys, tempDir, dlUrl, dlPath,
                   resp, files, route, status, written, fetched>>

\* fs.access(sourcePath): the clone's root exists; a subpath may not
TreeAccess ==
    /\ pc = "tree_access"
    /\ LET parsed == parseGitHubUrl(input)
           sourcePath == treeSourcePath(tempDir, parsed.path)
       IN  \/ /\ pc' = "tree_cp"
              /\ UNCHANGED err
           \/ /\ FsKey(sourcePath) \notin tmpfs
              /\ err' = s_path_q \o parsed.path \o s_not_found
              /\ pc' = "tree_finally"
    /\ UNCHANGED <<args, dirOpt, targetDir, idx, exitCode, fsys, tmpfs, tempDir, dlUrl,
                   dlPath, resp, files, route, status, written, ops, fetched>>

\* fs.cp(sourcePath, targetPath, {recursive: true}); a failed copy leaves
\* the target as it was or partly copied.
TreeCp ==
    /\ pc = "tree_cp"
    /\ Attempt("write")
    /\ pc' = "tree_finally"
    /\ LET parsed == parseGitHubUrl(input)
           targetPath == treeTargetPath(targetDir, parsed.path, parsed.repo)
       IN  \/ /\ fsys' = Put(fsys, FsKey(targetPath),
                             [kind |-> "tree", by |-> idx, src |-> parsed.path])
              /\ Wrote(targetPath)
              /\ UNCHANGED err
           \/ /\ err' = s_eio
              /\ \/ UNCHANGED <<fsys, written>>
                 \/ /\ fsys' = Put(fsys, FsKey(targetPath),
                                   [kind |-> "partial", by |-> idx, src |-> parsed.path])
                    /\ Wrote(targetPath)
    /\ UNCHANGED <<args, dirOpt, targetDir, idx, exitCode, tmpfs, tempDir, dlUrl, dlPath,
                   resp, files, route, status, fetched>>

\* The cleanup at the end of the try block instead of in a finally block:
\* an error skips it
Finally_OnlyOnSuccess ==
    IF err = <<>>
    THEN /\ tmpfs' = RemoveScratch(tmpfs, tempDir)
         /\ tempDir' = <<>>
         /\ Return
         /\ UNCHANGED err
    ELSE /\ Raise(err)
         /\ UNCHANGED <<tmpfs, tempDir, idx>>

\* The finally block of a handler with a scratch directory, then the
\* return or the rethrow.
Finally ==
    /\ tmpfs' = RemoveScratch(tmpfs, tempDir)
    /\ tempDir' = <<>>
    /\ IF err = <<>>
       THEN Return /\ UNCHANGED err
       ELSE Raise(err) /\ UNCHANGED idx

TreeFinally ==
    /\ pc = "tree_finally"
    /\ Finally
    /\ UNCHANGED <<args, dirOpt, targetDir, exitCode, fsys, dlUrl, dlPath, resp, files,
                   route, written, ops, fetched>>

\* downloadGitHubRepo: git clone --depth 1 <url> <packageDir>; a failure is
\* logged and rethrown
RepoClone ==
    /\ pc = "repo_clone"
    /\ Attempt("clone")
    /\ LET packageDir == join(targetDir, input)
       IN  \/ /\ CanCloneInto(fsys, packageDir)
              /\ fsys' = Put(Put(fsys, FsKey(packageDir),
                                 [kind |-> "tree", by |-> idx, src |-> input]),
                             FsKey(join(packageDir, s_dot_git)), Dir(idx))
              /\ Wrote(packageDir)
              /\ pc' = "repo_rm"
              /\ UNCHANGED <<err, status>>
           \/ /\ Raise(s_git_failed)
              /\ UNCHANGED <<fsys, written>>
    /\ UNCHANGED <<args, dirOpt, targetDir, idx, exitCode, tmpfs, tempDir, dlUrl, dlPath,
                   resp, files, route, fetched>>

\* downloadGitHubRepo without the removal of .git
RepoRm_KeepGit ==
    /\ pc = "repo_rm"
    /\ Return
    /\ UNCHANGED <<args, dirOpt, targetDir, exitCode, fsys, tmpfs, tempDir, dlUrl, dlPath,
                   resp, err, files, route, written, ops, fetched>>

\* fs.rm(join(packageDir, ".git"), {recursive: true, force: true})
RepoRm ==
    /\ pc = "repo_rm"
    /\ fsys' = RemoveUnder(fsys, FsKey(join(join(targetDir, input), s_dot_git)))
    /\ Return
    /\ UNCHANGED <<args, dirOpt, targetDir, exitCode, tmpfs, tempDir, dlUrl, dlPath,
                   resp, err, files, route, written, ops, fetched>>

\* downloadNpmPackage: tempDir is named and created
NpmMkdir ==
    /\ pc = "npm_mkdir"
    /\ \E now \in 0..MaxStamp :
          /\ tempDir' = scratchName(now)
          /\ tmpfs' = tmpfs \cup {scratchName(now)}
    /\ Attempt("mkdtemp")
    /\ pc' = "npm_init"
    /\ UNCHANGED <<args, dirOpt, targetDir, idx, exitCode, fsys, dlUrl, dlPath, resp,
                   err, files, route, status, written, fetched>>

\* npm init -y
NpmInit ==
    /\ pc = "npm_init"
    /\ Attempt("init")
    /\ \/ /\ pc' = "npm_install"
          /\ UNCHANGED err
       \/ /\ err' = s_npm_failed
          /\ pc' = "npm_finally"
    /\ UNCHANGED <<args, dirOpt, targetDir, idx, exitCode, fsys, tmpfs, tempDir, dlUrl,
                   dlPath, resp, files, route, status, written, fetched>>

\* npm install <packageName>: npm puts the package in node_modules/<packageName>
NpmInstall ==
    /\ pc = "npm_install"
    /\ Attempt("install")
    /\ \/ /\ tmpfs' = tmpfs \cup {join(tempDir, s_node_modules),
                                  FsKey(join3(tempDir, s_node_modules, input))}
          /\ pc' = "npm_readdir"
          /\ UNCHANGED err
       \/ /\ err' = s_npm_failed
          /\ pc' = "npm_finally"
          /\ UNCHANGED tmpfs
    /\ UNCHANGED <<args, dirOpt, targetDir, idx, exitCode, fsys, tempDir, dlUrl, dlPath,
                   resp, files, route, status, written, fetched>>

\* fs.mkdir(packageDir, {recursive: true}), then fs.readdir(sourceDir)
NpmReaddir ==
    /\ pc = "npm_readdir"
    /\ Attempt("write")
    /\ LET packageDir == join(targetDir, input)
           sourceDir == npmSourceDir(tempDir, input)
       IN  /\ fsys' = Mkdir(fsys, packageDir, idx)
           /\ Wrote(packageDir)
           /\ IF FsKey(sourceDir) \in tmpfs
              THEN /\ files' \in FileLists
                   /\ pc' = "npm_cp"
                   /\ UNCHANGED err
              ELSE /\ err' = s_enoent
                   /\ pc' = "npm_finally"
                   /\ UNCHANGED files
    /\ UNCHANGED <<args, dirOpt, targetDir, idx, exitCode, tmpfs, tempDir, dlUrl, dlPath,
                   resp, route, status, fetched>>

\* One turn of the for loop over files: fs.cp of the next entry
NpmCp ==
    /\ pc = "npm_cp"
    /\ LET packageDir == join(targetDir, input)
       IN  IF files = <<>>
           THEN /\ pc' = "npm_finally"
                /\ UNCHANGED <<fsys, written, err, files>>
           ELSE \/ /\ fsys' = Put(fsys, FsKey(join(packageDir, Head(files))),
                                  [kind |-> "tree", by |-> idx, src |-> Head(files)])
                   /\ Wrote(join(packageDir, Head(files)))
                   /\ files' = Tail(files)
                   /\ UNCHANGED <<pc, err>>
                \/ /\ err' = s_eio
                   /\ files' = <<>>
                   /\ pc' = "npm_finally"
                   /\ UNCHANGED <<fsys, written>>
    /\ UNCHANGED <<args, dirOpt, targetDir, idx, exitCode, tmpfs, tempDir, dlUrl, dlPath,
                   resp, route, status, ops, fetched>>

NpmFinally ==
    /\ pc = "npm_finally"
    /\ Finally
    /\ UNCHANGED <<args, dirOpt, targetDir, exitCode, fsys, dlUrl, dlPath, resp, files,
                   route, written, ops, fetched>>

Next ==
    \/ Main
    \/ MainDone
    \/ MainCatch
    \/ DownloadPackage
    \/ Fetch
    \/ Response
    \/ TreeMkdir
    \/ TreeClone
    \/ TreeAccess
    \/ TreeCp
    \/ TreeFinally
    \/ RepoClone
    \/ RepoRm
    \/ NpmMkdir
    \/ NpmInit
    \/ NpmInstall
    \/ NpmReaddir
    \/ NpmCp
    \/ NpmFinally

Spec == Init /\ [][Next]_vars

\* ============================================================ the claims
\* What the claims say, stated without the program's own operators.

s_vndr == <<"v", "n", "d", "r">>

\* The target directory: --dir, or vndr under the working directory
Target == IF dirOpt # <<>> THEN dirOpt ELSE s_vndr

\* The entry <name> of the target directory
Child(name) == Target \o s_slash \o name

Seen == 1..Len(args)

Contains(s, w) == \E i \in 1..(Len(s) - Len(w) + 1) : SubSeq(s, i, i + Len(w) - 1) = w

HasScheme(s) ==
    \/ Len(s) >= 7 /\ SubSeq(s, 1, 7) = s_http
    \/ Len(s) >= 8 /\ SubSeq(s, 1, 8) = s_https

\* exactly one "/", with something on both sides of it
OwnerNameShape(s) ==
    /\ Cardinality({k \in 1..Len(s) : s[k] = "/"}) = 1
    /\ s[1] # "/"
    /\ s[Len(s)] # "/"

Last(segs) == segs[Len(segs)]

\* C1: a scratch directory exists only inside the handler that created it: at
\* main's for loop (the handler has returned), in main's catch (it has raised)
\* and when the process has exited, no scratch directory exists.
C1_ScratchRemoved ==
    pc \in {"main", "loop", "catch", "exited"} => tmpfs = {}

\* A handler created a scratch directory, its copy failed, and it has raised.
C1_Witness ==
    /\ pc = "catch"
    /\ <<idx, "mkdtemp">> \in ops
    /\ err = s_eio
    /\ tmpfs = {}

\* C2: inputs are handled one at a time and in order; once an input has failed
\* nothing is attempted for a later input, and the process exits with code 1.
C2_SequentialAbort ==
    /\ \A op \in ops : op[1] <= idx
    /\ \A i \in Seen :
          /\ route[i] # "none" => \A k \in 1..(i - 1) : status[k] = "ok"
          /\ status[i] = "failed" =>
                /\ \A op \in ops : op[1] <= i
                /\ \A j \in (i + 1)..Len(args) :
                      /\ route[j] = "none"
                      /\ status[j] = "pending"
                      /\ written[j] = {}
                      /\ fetched[j] = <<>>
                /\ pc = "exited" => exitCode = 1
    /\ (pc = "exited" /\ exitCode = 0) => \A i \in Seen : status[i] = "ok"

\* The first of two inputs failed and the process has exited.
C2_Witness ==
    /\ pc = "exited"
    /\ Len(args) = 2
    /\ status[1] = "failed"
    /\ route[2] = "none"
    /\ exitCode = 1

\* The handler the routing rule names
ClaimedRoute(s) ==
    IF HasScheme(s)
    THEN IF Contains(s, s_github_com) THEN "github" ELSE "file"
    ELSE IF OwnerNameShape(s) THEN "repo" ELSE "npm"

\* C3: every input the loop has reached went to one handler, the one the
\* routing rule names.
C3_Routing ==
    \A i \in Seen :
        /\ (i < idx \/ status[i] # "pending") => route[i] # "none"
        /\ route[i] # "none" => route[i] = ClaimedRoute(args[i])

\* A token with two "/" went to the package manager after an owner/name
\* token went to the repository handler.
C3_Witness ==
    /\ Len(args) = 2
    /\ args[1] \in RepoTokens /\ route[1] = "repo"
    /\ args[2] \in OtherTokens /\ route[2] = "npm"

StatusText(st) ==
    CASE st = 404 -> <<"4", "0", "4">>
      [] st = 500 -> <<"5", "0", "0">>
      [] OTHER -> <<"2", "0", "0">>

\* C4: the fetch writes nothing, and on a response that is not 2xx the
\* download raises an error whose message has the status code in it and
\* leaves the filesystem, the destination included, as it was.
C4_FailedDownload ==
    [][/\ pc = "fetch" => fsys' = fsys
       /\ (pc = "response" /\ (resp < 200 \/ resp > 299)) =>
             /\ pc' = "catch"
             /\ fsys' = fsys
             /\ Contains(err', StatusText(resp))]_vars

\* A download got a 404 where an earlier input had written the destination:
\* the earlier input's file is still there.
C4_Witness ==
    /\ pc = "catch"
    /\ resp = 404
    /\ idx = 2
    /\ FsKey(dlPath) \in DOMAIN fsys
    /\ fsys[FsKey(dlPath)] = [kind |-> "file", by |-> 1, src |-> args[1]]

\* The generic URLs by their segments
GenericTable ==
    {[text |-> GenericUrl(sc, segs), name |-> Last(segs)] :
        sc \in {s_http, s_https}, segs \in {<<n_f>>, <<n_d, n_f>>}}

GenericName(u) == (CHOOSE g \in GenericTable : g.text = u).name

BlobTable ==
    {[text |-> BlobUrl(n_o, n_r, n_b, PathOf(segs)),
      raw |-> s_raw_prefix \o n_o \o s_slash \o n_r \o s_slash \o n_b \o s_slash \o PathOf(segs),
      name |-> Last(segs)] : segs \in SegLists}
        \cup {[text |-> BlobUrl(n_o, n_r, n_b, s_slash),
               raw |-> s_raw_prefix \o n_o \o s_slash \o n_r \o s_slash \o n_b \o s_slash \o s_slash,
               name |-> <<>>]}

\* C6: for a blob URL github.com/<owner>/<repo>/blob/<b>/<p> the URL fetched
\* is raw.githubusercontent.com/<owner>/<repo>/<b>/<p>, and the file written
\* is <target>/<final segment of p>.
C6_BlobUrl ==
    \A i \in Seen : \A t \in BlobTable :
        args[i] = t.text =>
            /\ fetched[i] # <<>> => fetched[i] = t.raw
            /\ (written[i] # {} /\ t.name # <<>>) =>
                  /\ written[i] = {Child(t.name)}
                  /\ (pc = "loop" /\ idx = i + 1) =>
                        fsys[Child(t.name)] = [kind |-> "file", by |-> i, src |-> t.raw]

\* The blob URL with the path d/f was downloaded.
C6_Witness ==
    \E i \in Seen :
        /\ args[i] = BlobUrl(n_o, n_r, n_b, PathOf(<<n_d, n_f>>))
        /\ status[i] = "ok"
        /\ written[i] # {}

\* The tokens <owner>/<name>
TokenTable == {Token(owner, name) : owner \in {n_o, n_scope}, name \in {n_r, n_n}}

\* C7: after an owner/name token is handled, the clone is at
\* <target>/owner/name and has no .git in it.
C7_RepoToken ==
    \A i \in Seen : \A t \in TokenTable :
        (status[i] = "ok" /\ args[i] = t) =>
            /\ written[i] = {Child(t)}
            /\ Child(t) \in DOMAIN fsys
            /\ \A k \in DOMAIN fsys : ~Under(k, Child(t) \o s_slash \o s_dot_git)

\* The token o/r was cloned.
C7_Witness ==
    \E i \in Seen : args[i] = Token(n_o, n_r) /\ status[i] = "ok"

\* The name a tree URL's result gets under the target, by the claim: the
\* repository name when the URL has no subpath, else the subpath's final
\* segment.
TreeTable ==
    {[text |-> TreeUrl(n_o, n_r, n_b, PathOf(segs)), name |-> Last(segs)] : segs \in SegLists}
        \cup {[text |-> TreeUrlNoPath(n_o, n_r, n_b), name |-> n_r],
              [text |-> TreeUrl(n_o, n_r, n_b, s_slash), name |-> n_r]}

\* C8: a tree URL that was handled created <target>/<repository name> when
\* it has no subpath and <target>/<final segment of the subpath> otherwise.
C8_TreeName ==
    \A i \in Seen : \A t \in TreeTable :
        (status[i] = "ok" /\ args[i] = t.text) => written[i] = {Child(t.name)}

\* Where each input's result goes under the target, for the inputs whose
\* derived name has a final segment
DestTable ==
    {[text |-> BlobUrl(n_o, n_r, n_b, PathOf(<<n_d, n_f>>)), dest |-> n_f],
     [text |-> BlobUrlNoPath(n_o, n_r, n_b), dest |-> n_b],
     [text |-> TreeUrl(n_o, n_r, n_b, PathOf(<<n_d>>)), dest |-> n_d],
     [text |-> TreeUrl(n_o, n_r, n_b, PathOf(<<n_d, n_f>>)), dest |-> n_f],
     [text |-> TreeUrlNoPath(n_o, n_r, n_b), dest |-> n_r],
     [text |-> GenericUrl(s_https, <<n_d, n_f>>), dest |-> n_f],
     [text |-> GenericUrl(s_http, <<n_f>>), dest |-> n_f],
     [text |-> Token(n_o, n_r), dest |-> Token(n_o, n_r)],
     [text |-> Token(n_scope, n_n), dest |-> Token(n_scope, n_n)],
     [text |-> n_n, dest |-> n_n],
     [text |-> Token(n_o, n_r) \o s_slash \o n_x, dest |-> Token(n_o, n_r) \o s_slash \o n_x],
     [text |-> s_slash \o n_r, dest |-> n_r],
     [text |-> n_o \o s_slash, dest |-> n_o]}

HasDest(u) == \E d \in DestTable : d.text = u

DestOf(u) == (CHOOSE d \in DestTable : d.text = u).dest

Nested(p, q) == Under(p, q) \/ Under(q, p)

\* C9 as stated: two different inputs of one run never write the same path.
C9_Original ==
    \A i \in Seen : \A j \in Seen :
        (i # j /\ args[i] # args[j]) => written[i] \cap written[j] = {}

\* C9 amended: two inputs whose destinations under the target are different
\* and not inside one another write no path in common, and no path inside a
\* path the other wrote.
C9_DisjointDestinations ==
    \A i \in Seen : \A j \in Seen :
        (/\ i < j
         /\ written[i] # {} /\ written[j] # {}
         /\ HasDest(args[i]) /\ HasDest(args[j])
         /\ ~Nested(DestOf(args[i]), DestOf(args[j])))
            => \A p \in written[i] : \A q \in written[j] : ~Nested(p, q)

\* Two inputs with destinations apart have both written.
C9_Witness ==
    /\ Len(args) = 2
    /\ HasDest(args[1]) /\ HasDest(args[2])
    /\ ~Nested(DestOf(args[1]), DestOf(args[2]))
    /\ status[1] = "ok" /\ status[2] = "ok"
    /\ written[1] # {} /\ written[2] # {}

\* C10: a scoped package name @scope/name is handled by the package-manager
\* handler.
C10_ScopedPackage ==
    \A i \in Seen :
        (args[i] \in ScopedNames /\ route[i] # "none") => route[i] = "npm"

====
